---- MODULE Spec2Model ----
(***************************************************************************)
(* One render of the CPAP dashboard script (src/src/main.py): data-source  *)
(* selection, metadata query, default-channel resolution, channel          *)
(* selection, the two channel loads, merge, daily/weekly aggregation and   *)
(* the weekly summary table.                                                *)
(*                                                                         *)
(* Time is counted in whole hours from 00:00 of a Monday (day 0); a day is *)
(* t \div 24, its weekday is day % 7 with 0 = Monday .. 6 = Sunday.        *)
(* Signal values and pressures are integers in tenths (80 is 8.0).  The    *)
(* floating-point means of the code are modelled as exact rationals and    *)
(* round(1) as rounding half to even.                                      *)
(***************************************************************************)
EXTENDS Integers, Sequences, FiniteSets, TLC

VARIABLES
    pc,                      \* position of the script in the current render
    data_source,             \* line 66: the sidebar selectbox
    TEMP_FILE_PATH,          \* line 71: None or the path of the recording
    recording,               \* the content of the file at TEMP_FILE_PATH
    machine_type,            \* line 108
    signals,                 \* line 107: channel labels of the recording
    default_ahi_signal,      \* line 126
    default_pressure_signal, \* line 126
    ahi_signal,              \* line 127: value of the AHI selectbox
    pressure_signal,         \* line 128: value of the pressure selectbox
    ahi_overridden,          \* the user changed the AHI selectbox
    pressure_overridden,     \* the user changed the pressure selectbox
    slot,                    \* which load_data call is running (140 / 141)
    df_ahi,                  \* line 140
    df_pressure,             \* line 141
    df,                      \* line 142: the merged table
    daily_data,              \* line 144-145: the Daily Aggregate
    weekly_recommended_table,\* line 159-164: the Weekly Summary
    messages,                \* inline messages shown (st.warning / st.write)
    output,                  \* charts, table and download button were rendered
    error,                   \* None, or the exception that ended the render
    open_handles,            \* EdfReader objects opened and not closed
    opens                    \* number of EdfReader(...) calls in this render

vars == <<pc, data_source, TEMP_FILE_PATH, recording, machine_type, signals,
          default_ahi_signal, default_pressure_signal, ahi_signal,
          pressure_signal, ahi_overridden, pressure_overridden, slot, df_ahi,
          df_pressure, df, daily_data, weekly_recommended_table, messages,
          output, error, open_handles, opens>>

(***************************************************************************)
(* Bounds of the model.                                                    *)
(***************************************************************************)
MaxChannels == 2     \* recordings of the resolution family have 0..MaxChannels channels
MaxWeeks == 2        \* recordings last up to MaxWeeks * 7 data records

(***************************************************************************)
(* Python values.                                                          *)
(***************************************************************************)
None == "<None>"

\* Python truthiness of an optional string: None and "" are false.
Truthy(x) == x # None /\ x # ""

Range(s) == {s[i] : i \in DOMAIN s}

\* list.index(x): the first position holding x (x is in the list).
IndexOf(s, x) == CHOOSE i \in DOMAIN s : s[i] = x /\ \A j \in 1..(i - 1) : s[j] # x

RECURSIVE SeqsUpTo(_, _)
SeqsUpTo(S, n) ==
    IF n = 0 THEN {<<>>}
    ELSE LET shorter == SeqsUpTo(S, n - 1)
         IN  shorter \cup {Append(s, x) : s \in {q \in shorter : Len(q) = n - 1}, x \in S}

(***************************************************************************)
(* The inputs: recordings.  A recording is an EDF file: a device field     *)
(* that may be absent, channel labels, a start time, and nrec data records *)
(* of recHours hours each, channel k holding smp[k] samples per record, so *)
(* that every channel spans the same nrec * recHours hours.  The samples   *)
(* of channel k are its pattern pat[k] repeated.                           *)
(***************************************************************************)
NoDevice == "<absent>"

Devices == {"ResMed AirSense 11", "ResMed AirCurve 10", "Philips DreamStation", NoDevice}

Labels == {"AHI", "MaskPress.95", "Pressure", "ahi", ""}

ConstantPressure == <<80>>
AhiPattern == <<20, 80>>

PressurePatterns ==
    { ConstantPressure,
      <<100, 100, 120, 120, 120, 140, 140>>,
      <<100, 100, 100, 100, 100, 100, 100, 120, 120, 120, 120, 120, 120, 120>>,
      <<120, 120, 120, 120, 120, 120, 120, 100, 100, 100, 100, 100, 100, 100>> }

\* Recordings that exercise default-channel resolution: any device, any
\* list of up to MaxChannels labels, one daily sample per channel.
ResolutionRecordings ==
    { [device |-> d, signals |-> s, startDay |-> 0, startHour |-> 0,
       recHours |-> 24, nrec |-> 1,
       smp |-> [k \in DOMAIN s |-> 1],
       pat |-> [k \in DOMAIN s |-> ConstantPressure]] :
      d \in Devices, s \in SeqsUpTo(Labels, MaxChannels) }

StartHours == {0, 22}

\* Data-record layouts: one-day records sampled daily or hourly, and
\* two-day and eight-day records with one sample each (days and weeks
\* without samples).
Layouts ==
    { [recHours |-> 24, nrec |-> n, smp |-> <<a, p>>] :
        n \in {1} \cup {7 * w : w \in 1..MaxWeeks}, a \in {1, 24}, p \in {1, 24} }
    \cup
    { [recHours |-> h, nrec |-> n, smp |-> <<1, 1>>] :
        h \in {48, 192}, n \in 1..(2 * MaxWeeks) }

\* Recordings that exercise the aggregation: channels "AHI" and
\* "MaskPress.95", any start weekday.
AggregationRecordings ==
    { [device |-> NoDevice, signals |-> <<"AHI", "MaskPress.95">>,
       startDay |-> sd, startHour |-> sh,
       recHours |-> l.recHours, nrec |-> l.nrec, smp |-> l.smp,
       pat |-> <<AhiPattern, pp>>] :
      sd \in 0..6, sh \in StartHours, l \in Layouts, pp \in PressurePatterns }

Recordings == ResolutionRecordings \cup AggregationRecordings

(***************************************************************************)
(* The reader library (pyedflib.EdfReader) on a recording.                 *)
(***************************************************************************)
\* edf.getHeader().get("device", "Unknown Device")
HeaderDevice(rec) == IF rec.device = NoDevice THEN "Unknown Device" ELSE rec.device

\* edf.getSignalLabels()
getSignalLabels(rec) == rec.signals

\* edf.getNSamples()[k]
getNSamples(rec, k) == rec.nrec * rec.smp[k]

\* 1 / edf.getSampleFrequency(k), in hours
SamplePeriod(rec, k) == rec.recHours \div rec.smp[k]

\* edf.getStartdatetime(), in hours
getStartdatetime(rec) == rec.startDay * 24 + rec.startHour

\* edf.readSignal(k)[i], i counted from 0
readSignal(rec, k, i) == rec.pat[k][(i % Len(rec.pat[k])) + 1]

(***************************************************************************)
(* get_default_signals (lines 113-124).                                    *)
(***************************************************************************)
DefaultsTable ==
    [d \in {"ResMed AirSense 11", "ResMed AirCurve 10"} |->
        IF d = "ResMed AirSense 11"
        THEN [AHI |-> "AHI", MaskPress95 |-> "MaskPress.95"]
        ELSE [AHI |-> "AHI", MaskPress95 |-> "Pressure"]]

\* The table's AirCurve 10 entry is ignored: every device gets the fallback names.
get_default_signals_FallbackOnly(mt, sigs) ==
    << IF "AHI" \in Range(sigs) THEN "AHI" ELSE None,
       IF "MaskPress.95" \in Range(sigs) THEN "MaskPress.95" ELSE None >>

get_default_signals(mt, sigs) ==
    IF mt \in DOMAIN DefaultsTable
    THEN << IF DefaultsTable[mt].AHI \in Range(sigs)
            THEN DefaultsTable[mt].AHI ELSE None,
            IF DefaultsTable[mt].MaskPress95 \in Range(sigs)
            THEN DefaultsTable[mt].MaskPress95 ELSE None >>
    ELSE << IF "AHI" \in Range(sigs) THEN "AHI" ELSE None,
            IF "MaskPress.95" \in Range(sigs) THEN "MaskPress.95" ELSE None >>

(***************************************************************************)
(* st.selectbox(label, options, index): the option the user picked, else   *)
(* the option at index; None when there are no options.                    *)
(***************************************************************************)
selectbox(options, index, choice) ==
    IF options = <<>> THEN None
    ELSE IF choice # 0 THEN options[choice]
    ELSE options[index]

\* index=signals.index(default) if default else 0   (0-based there, 1-based here)
DefaultIndex(sigs, default) ==
    IF Truthy(default) THEN IndexOf(sigs, default) ELSE 1

(***************************************************************************)
(* load_data (lines 130-139): the DataFrame {'Time': ..., name: ...}.      *)
(***************************************************************************)
load_data(rec, signal_name) ==
    LET k == IndexOf(getSignalLabels(rec), signal_name)
        n == getNSamples(rec, k)
    IN  [col  |-> signal_name,
         rows |-> [j \in 1..n |->
                     [Time |-> getStartdatetime(rec) + (j - 1) * SamplePeriod(rec, k),
                      v    |-> readSignal(rec, k, j - 1)]]]

(***************************************************************************)
(* Floating-point values: NaN or a number of tenths; rationals num / den.  *)
(***************************************************************************)
NaN == [nan |-> TRUE, v |-> 0]
Num(x) == [nan |-> FALSE, v |-> x]

Abs(x) == IF x < 0 THEN -x ELSE x

RECURSIVE GCD(_, _)
GCD(a, b) == IF b = 0 THEN a ELSE GCD(b, a % b)

LCM(a, b) == (a * b) \div GCD(a, b)

\* round(): num / den (den > 0) rounded to the nearest integer, ties to even.
RoundHalfEven(num, den) ==
    LET a == Abs(num)
        q == a \div den
        r == a % den
        m == IF 2 * r > den \/ (2 * r = den /\ q % 2 = 1) THEN q + 1 ELSE q
    IN  IF num < 0 THEN -m ELSE m

RECURSIVE SumTo(_, _)
\* the sum of s[1] .. s[n]
SumTo(s, n) == IF n = 0 THEN 0 ELSE s[n] + SumTo(s, n - 1)

RECURSIVE LcmTo(_, _)
\* the least common multiple of s[1] .. s[n]
LcmTo(s, n) == IF n = 0 THEN 1 ELSE LCM(s[n], LcmTo(s, n - 1))

Sum(s) == SumTo(s, Len(s))

(***************************************************************************)
(* pd.merge(df_ahi, df_pressure, on='Time') and set_index (lines 142-143): *)
(* the inner join on equal Time.  Both frames come from load_data, whose   *)
(* Time column is strictly increasing, so a row's partner is found by      *)
(* bisection.  Equal column names get the suffixes _x and _y.              *)
(***************************************************************************)
RECURSIVE FindTime(_, _, _, _)
\* the position in rows[lo..hi] of the row with Time t, 0 when there is none
FindTime(rows, lo, hi, t) ==
    IF lo > hi THEN 0
    ELSE LET mid == (lo + hi) \div 2
         IN  IF rows[mid].Time = t THEN mid
             ELSE IF rows[mid].Time < t THEN FindTime(rows, mid + 1, hi, t)
             ELSE FindTime(rows, lo, mid - 1, t)

\* A left join: every row of a is kept, unmatched ones with the value 0.
JoinRows_Left(a, b) ==
    LET match == [k \in DOMAIN a |-> FindTime(b, 1, Len(b), a[k].Time)]
    IN  [k \in DOMAIN a |->
            [Time |-> a[k].Time, x |-> a[k].v,
             y |-> IF match[k] > 0 THEN b[match[k]].v ELSE 0]]

JoinRows(a, b) ==
    LET match == [k \in DOMAIN a |-> FindTime(b, 1, Len(b), a[k].Time)]
        Matched(k) == match[k] > 0
        keep == SelectSeq([k \in DOMAIN a |-> k], Matched)
    IN  [i \in DOMAIN keep |->
            [Time |-> a[keep[i]].Time, x |-> a[keep[i]].v, y |-> b[match[keep[i]]].v]]

merge(left, right) ==
    [cols |-> IF left.col = right.col
              THEN <<left.col \o "_x", right.col \o "_y">>
              ELSE <<left.col, right.col>>,
     rows |-> JoinRows(left.rows, right.rows)]

(***************************************************************************)
(* df.resample('D').mean() (line 144): one row per calendar day from the   *)
(* first to the last day of the merged table; n is the number of merged    *)
(* rows of the day, x and y the sums of the two columns: the day's means   *)
(* are x / n and y / n, NaN when n = 0.                                    *)
(***************************************************************************)
DayOf(t) == t \div 24

resampleD(frame) ==
    LET rows == frame.rows
        d0 == DayOf(rows[1].Time)
        d1 == DayOf(rows[Len(rows)].Time)
    IN  [i \in 1..(d1 - d0 + 1) |->
            LET OnDay(r) == DayOf(r.Time) = d0 + i - 1
                rs == SelectSeq(rows, OnDay)
            IN  [day |-> d0 + i - 1, n |-> Len(rs),
                 x |-> Sum([k \in DOMAIN rs |-> rs[k].x]),
                 y |-> Sum([k \in DOMAIN rs |-> rs[k].y])]]

(***************************************************************************)
(* resample('W-SUN'): weeks that end on Sunday.  Day 0 is a Monday, so the *)
(* week of a day is day \div 7 and its label is its last day, the Sunday.  *)
(***************************************************************************)
\* Weeks that end on Saturday (Sunday to Saturday).
WeekOf_SaturdayEnd(day) == (day + 1) \div 7

WeekOf(day) == day \div 7

WeekLabel(w) == 7 * w + 6

\* The mean over the days of week w that have samples of the daily means
\* s / n of a column, rounded to one decimal (in tenths); NaN when no day
\* of the week has a sample.
WeekMeanRounded(col, w) ==
    LET InWeek(r) == WeekOf(r.day) = w /\ r.n > 0
        ds == SelectSeq(col, InWeek)
        L == LcmTo([k \in DOMAIN ds |-> ds[k].n], Len(ds))
    IN  IF ds = <<>> THEN NaN
        ELSE Num(RoundHalfEven(Sum([k \in DOMAIN ds |-> ds[k].s * (L \div ds[k].n)]),
                               L * Len(ds)))

\* The value is set on the row of the week's last day only.
transformWeekMean_WeekEndOnly(col) ==
    [i \in DOMAIN col |->
        IF col[i].day = WeekLabel(WeekOf(col[i].day))
        THEN WeekMeanRounded(col, WeekOf(col[i].day)) ELSE NaN]

\* daily_data[col].resample('W-SUN').transform('mean').round(1) (line 145):
\* every day gets the rounded mean of its week.
transformWeekMean(col) ==
    [i \in DOMAIN col |-> WeekMeanRounded(col, WeekOf(col[i].day))]

\* Lines 144-145: the Daily Aggregate with its 'Recommended Pressure'
\* column.  The pressure column is looked up by name in the merged columns.
aggregate(frame, pressure_col) ==
    LET days == resampleD(frame)
        col == [i \in DOMAIN days |->
                  [day |-> days[i].day, n |-> days[i].n,
                   s |-> IF pressure_col = frame.cols[1] THEN days[i].x ELSE days[i].y]]
        rec == transformWeekMean(col)
    IN  [i \in DOMAIN days |->
            [day |-> days[i].day, n |-> days[i].n, x |-> days[i].x,
             y |-> days[i].y, rec |-> rec[i]]]

(***************************************************************************)
(* Text.  A Python string built or parsed by the script is a sequence of   *)
(* one-character strings.                                                  *)
(***************************************************************************)
DigitChars == <<"0", "1", "2", "3", "4", "5", "6", "7", "8", "9">>

RECURSIVE NatChars(_)
NatChars(n) ==
    IF n < 10 THEN <<DigitChars[n + 1]>>
    ELSE NatChars(n \div 10) \o <<DigitChars[(n % 10) + 1]>>

DigitValue(c) == (CHOOSE i \in DOMAIN DigitChars : DigitChars[i] = c) - 1

RECURSIVE CharsNat(_, _)
\* the number written by the digits s[1] .. s[n]
CharsNat(s, n) == IF n = 0 THEN 0 ELSE 10 * CharsNat(s, n - 1) + DigitValue(s[n])

\* A number of tenths with one decimal: 123 is "12.3", -5 is "-0.5".
TenthsChars(neg, mag) ==
    (IF neg THEN <<"-">> ELSE <<>>) \o NatChars(mag \div 10) \o <<".">> \o NatChars(mag % 10)

\* f"{pressure:.1f}" (line 161) of the float num / den, or of NaN.
FormatOneDecimal(isnan, num, den) ==
    IF isnan THEN <<"n", "a", "n">>
    ELSE TenthsChars(num < 0, Abs(RoundHalfEven(10 * num, den)))

\* .astype(float) (line 163) of such a text: NaN or a number of tenths.
ParseFloat(text) ==
    IF text = <<"n", "a", "n">> THEN NaN
    ELSE LET neg == text[1] = "-"
             body == IF neg THEN Tail(text) ELSE text
             dot == CHOOSE i \in DOMAIN body : body[i] = "."
             whole == CharsNat(SubSeq(body, 1, dot - 1), dot - 1)
             frac == DigitValue(body[dot + 1])
         IN  Num((IF neg THEN -1 ELSE 1) * (10 * whole + frac))

(***************************************************************************)
(* Line 163: diff() / shift(1) * 100, fillna(0), round(1) of the parsed    *)
(* column, and line 164: astype(str) + '%'.  prev is NaN for the first     *)
(* row (shift and diff give NaN there).                                    *)
(***************************************************************************)
ChangeText(curr, prev) ==
    IF curr.nan \/ prev.nan \/ (prev.v = 0 /\ curr.v = 0)
    THEN <<"0", ".", "0", "%">>                          \* NaN, then fillna(0)
    ELSE IF prev.v = 0
         THEN (IF curr.v < 0 THEN <<"-">> ELSE <<>>) \o <<"i", "n", "f", "%">>
    ELSE LET num == (curr.v - prev.v) * 1000         \* tenths of a percent
             den == prev.v
             n0 == IF den < 0 THEN -num ELSE num
         IN  TenthsChars(n0 < 0, Abs(RoundHalfEven(n0, Abs(den)))) \o <<"%">>

(***************************************************************************)
(* Lines 158-164: the Weekly Summary.  One row per Sunday-ending week from *)
(* the week of the first day to the week of the last day; the value of a   *)
(* week is the mean of the non-NaN 'Recommended Pressure' of its days.     *)
(***************************************************************************)
\* Weeks counted as seven-day windows from the first day of the aggregate.
resampleWeekMean_FromFirstDay(days) ==
    LET d0 == days[1].day
        nw == ((days[Len(days)].day - d0) \div 7) + 1
    IN  [i \in 1..nw |->
            LET InWindow(r) == (r.day - d0) \div 7 = i - 1 /\ ~r.rec.nan
                ds == SelectSeq(days, InWindow)
            IN  [label |-> d0 + 7 * i - 1,
                 isnan |-> ds = <<>>,
                 num   |-> Sum([k \in DOMAIN ds |-> ds[k].rec.v]),
                 den   |-> 10 * Len(ds)]]

\* daily_data['Recommended Pressure'].resample('W-SUN').mean() (line 158)
resampleWeekMean(days) ==
    LET w0 == WeekOf(days[1].day)
        w1 == WeekOf(days[Len(days)].day)
    IN  [i \in 1..(w1 - w0 + 1) |->
            LET InWeek(r) == WeekOf(r.day) = w0 + i - 1 /\ ~r.rec.nan
                ds == SelectSeq(days, InWeek)
            IN  [label |-> WeekLabel(w0 + i - 1),
                 isnan |-> ds = <<>>,
                 num   |-> Sum([k \in DOMAIN ds |-> ds[k].rec.v]),
                 den   |-> 10 * Len(ds)]]

weekly_table(days) ==
    LET weekly == resampleWeekMean(days)
        text == [i \in DOMAIN weekly |->
                    FormatOneDecimal(weekly[i].isnan, weekly[i].num, weekly[i].den)]
        val == [i \in DOMAIN weekly |-> ParseFloat(text[i])]
    IN  [i \in DOMAIN weekly |->
            [WeekStart |-> weekly[i].label,
             RecommendedPressure |-> text[i],
             Change |-> ChangeText(val[i], IF i = 1 THEN NaN ELSE val[i - 1])]]

(***************************************************************************)
(* The render.                                                             *)
(***************************************************************************)
NoFrame == [col |-> None, rows |-> <<>>]
NoTable == [cols |-> <<>>, rows |-> <<>>]

Init ==
    /\ pc = "start"
    /\ data_source = None
    /\ TEMP_FILE_PATH = None
    /\ recording = None
    /\ machine_type = None
    /\ signals = <<>>
    /\ default_ahi_signal = None
    /\ default_pressure_signal = None
    /\ ahi_signal = None
    /\ pressure_signal = None
    /\ ahi_overridden = FALSE
    /\ pressure_overridden = FALSE
    /\ slot = None
    /\ df_ahi = NoFrame
    /\ df_pressure = NoFrame
    /\ df = NoTable
    /\ daily_data = <<>>
    /\ weekly_recommended_table = <<>>
    /\ messages = {}
    /\ output = FALSE
    /\ error = None
    /\ open_handles = 0
    /\ opens = 0

\* An uncaught exception ends the script.
Raise(exc) == pc' = "done" /\ error' = exc

\* Lines 83-88: the upload widget; the uploaded file goes to a temporary file.
UploadFile ==
    /\ pc = "start"
    /\ data_source' = "Upload EDF File"
    /\ \/ /\ TEMP_FILE_PATH' = None                      \* uploaded_file is None
          /\ UNCHANGED recording
       \/ \E rec \in Recordings :
             /\ TEMP_FILE_PATH' = "tmp"
             /\ recording' = rec
    /\ pc' = "file"
    /\ UNCHANGED <<machine_type, signals, default_ahi_signal,
                   default_pressure_signal, ahi_signal, pressure_signal,
                   ahi_overridden, pressure_overridden, slot, df_ahi,
                   df_pressure, df, daily_data, weekly_recommended_table,
                   messages, output, error, open_handles, opens>>

\* Lines 90-98: the memory-card directory.  The text input is empty, or
\* names a directory that os.listdir cannot list, or one without .edf
\* files, or one holding a recording.
MemoryCard ==
    /\ pc = "start"
    /\ data_source' = "Load from AirSense 11 Memory Card"
    /\ \/ /\ pc' = "file"                                \* empty text input
          /\ UNCHANGED <<TEMP_FILE_PATH, recording, messages, error>>
       \/ /\ Raise("FileNotFoundError")                  \* os.listdir raises
          /\ UNCHANGED <<TEMP_FILE_PATH, recording, messages>>
       \/ /\ messages' = messages \cup {"No EDF files found in the specified directory."}
          /\ pc' = "file"
          /\ UNCHANGED <<TEMP_FILE_PATH, recording, error>>
       \/ \E rec \in Recordings :
             /\ TEMP_FILE_PATH' = "card/recording.edf"
             /\ recording' = rec
             /\ pc' = "file"
             /\ UNCHANGED <<messages, error>>
    /\ UNCHANGED <<machine_type, signals, default_ahi_signal,
                   default_pressure_signal, ahi_signal, pressure_signal,
                   ahi_overridden, pressure_overridden, slot, df_ahi,
                   df_pressure, df, daily_data, weekly_recommended_table,
                   output, open_handles, opens>>

\* Lines 100, 173-174: no file path.
NoFile ==
    /\ pc = "file"
    /\ TEMP_FILE_PATH = None
    /\ messages' = messages \cup
          {"Please upload a CPAP data file or select a file from your AirSense 11 memory card."}
    /\ pc' = "done"
    /\ UNCHANGED <<data_source, TEMP_FILE_PATH, recording, machine_type, signals,
                   default_ahi_signal, default_pressure_signal, ahi_signal,
                   pressure_signal, ahi_overridden, pressure_overridden, slot,
                   df_ahi, df_pressure, df, daily_data,
                   weekly_recommended_table, output, error, open_handles, opens>>

\* Line 102 (load_metadata) and line 131 (load_data): pyedflib.EdfReader(file_path).
OpenReader(next) ==
    /\ open_handles' = open_handles + 1
    /\ opens' = opens + 1
    /\ pc' = next
    /\ UNCHANGED <<data_source, TEMP_FILE_PATH, recording, machine_type, signals,
                   default_ahi_signal, default_pressure_signal, ahi_signal,
                   pressure_signal, ahi_overridden, pressure_overridden, slot,
                   df_ahi, df_pressure, df, daily_data,
                   weekly_recommended_table, messages, output, error>>

\* A reader call between the open and the close raises (an unreadable
\* file, a start date that is no calendar date): the exception leaves
\* load_metadata / load_data before edf.close() and ends the script.
ReaderFails ==
    /\ Raise("ReaderError")
    /\ UNCHANGED <<data_source, TEMP_FILE_PATH, recording, machine_type, signals,
                   default_ahi_signal, default_pressure_signal, ahi_signal,
                   pressure_signal, ahi_overridden, pressure_overridden, slot,
                   df_ahi, df_pressure, df, daily_data,
                   weekly_recommended_table, messages, output, open_handles,
                   opens>>

\* Lines 100-102.
MetaOpen ==
    /\ pc = "file"
    /\ TEMP_FILE_PATH # None
    /\ OpenReader("meta_open")

\* Lines 103-104: getHeader, getSignalLabels.
MetaQuery ==
    /\ pc = "meta_open"
    /\ machine_type' = HeaderDevice(recording)
    /\ signals' = getSignalLabels(recording)
    /\ pc' = "meta_read"
    /\ UNCHANGED <<data_source, TEMP_FILE_PATH, recording,
                   default_ahi_signal, default_pressure_signal, ahi_signal,
                   pressure_signal, ahi_overridden, pressure_overridden, slot,
                   df_ahi, df_pressure, df, daily_data,
                   weekly_recommended_table, messages, output, error,
                   open_handles, opens>>

\* Lines 103-104, raising.
MetaFails ==
    /\ pc = "meta_open"
    /\ ReaderFails

\* Lines 105-107: edf.close(), return.
MetaClose ==
    /\ pc = "meta_read"
    /\ open_handles' = open_handles - 1
    /\ pc' = "resolve"
    /\ UNCHANGED <<data_source, TEMP_FILE_PATH, recording, machine_type, signals,
                   default_ahi_signal, default_pressure_signal, ahi_signal,
                   pressure_signal, ahi_overridden, pressure_overridden, slot,
                   df_ahi, df_pressure, df, daily_data,
                   weekly_recommended_table, messages, output, error, opens>>

\* Lines 108-126: the detected machine and the default channels.
ResolveDefaults ==
    /\ pc = "resolve"
    /\ LET d == get_default_signals(machine_type, signals)
       IN  /\ default_ahi_signal' = d[1]
           /\ default_pressure_signal' = d[2]
    /\ pc' = "select"
    /\ UNCHANGED <<data_source, TEMP_FILE_PATH, recording, machine_type, signals,
                   ahi_signal, pressure_signal, ahi_overridden,
                   pressure_overridden, slot, df_ahi, df_pressure, df,
                   daily_data, weekly_recommended_table, messages, output,
                   error, open_handles, opens>>

\* Lines 127-129: the two selectboxes.  Each shows the default channel (the
\* first channel when the default did not resolve) unless the user picked
\* another option; then the test `if ahi_signal and pressure_signal`.
SelectSignals ==
    /\ pc = "select"
    /\ \E ca \in {0} \cup (DOMAIN signals \ {DefaultIndex(signals, default_ahi_signal)}),
          cp \in {0} \cup (DOMAIN signals \ {DefaultIndex(signals, default_pressure_signal)}) :
          LET a == selectbox(signals, DefaultIndex(signals, default_ahi_signal), ca)
              p == selectbox(signals, DefaultIndex(signals, default_pressure_signal), cp)
          IN  /\ ahi_signal' = a
              /\ pressure_signal' = p
              /\ ahi_overridden' = (ca # 0)
              /\ pressure_overridden' = (cp # 0)
              /\ IF Truthy(a) /\ Truthy(p)
                 THEN pc' = "load" /\ slot' = "ahi"
                 ELSE pc' = "warn" /\ slot' = slot
    /\ UNCHANGED <<data_source, TEMP_FILE_PATH, recording, machine_type, signals,
                   default_ahi_signal, default_pressure_signal, df_ahi,
                   df_pressure, df, daily_data, weekly_recommended_table,
                   messages, output, error, open_handles, opens>>

\* Lines 171-172.
Warn ==
    /\ pc = "warn"
    /\ messages' = messages \cup {"Please select valid signals for AHI and MaskPress.95."}
    /\ pc' = "done"
    /\ UNCHANGED <<data_source, TEMP_FILE_PATH, recording, machine_type, signals,
                   default_ahi_signal, default_pressure_signal, ahi_signal,
                   pressure_signal, ahi_overridden, pressure_overridden, slot,
                   df_ahi, df_pressure, df, daily_data,
                   weekly_recommended_table, output, error, open_handles, opens>>

\* Line 131, for the call of line 140 and then for that of line 141.
LoadOpen ==
    /\ pc = "load"
    /\ OpenReader("load_open")

\* Lines 132-137: the reads of one load_data call.
LoadRead ==
    /\ pc = "load_open"
    /\ pc' = "load_read"
    /\ UNCHANGED <<data_source, TEMP_FILE_PATH, recording, machine_type, signals,
                   default_ahi_signal, default_pressure_signal, ahi_signal,
                   pressure_signal, ahi_overridden, pressure_overridden, slot,
                   df_ahi, df_pressure, df, daily_data,
                   weekly_recommended_table, messages, output, error,
                   open_handles, opens>>

\* Lines 132-137, raising.
LoadFails ==
    /\ pc = "load_open"
    /\ ReaderFails

\* Lines 138-141: edf.close(), and the DataFrame returned to df_ahi or
\* df_pressure.
LoadClose ==
    /\ pc = "load_read"
    /\ open_handles' = open_handles - 1
    /\ IF slot = "ahi"
       THEN /\ df_ahi' = load_data(recording, ahi_signal)
            /\ slot' = "pressure"
            /\ pc' = "load"
            /\ UNCHANGED df_pressure
       ELSE /\ df_pressure' = load_data(recording, pressure_signal)
            /\ slot' = None
            /\ pc' = "merge"
            /\ UNCHANGED df_ahi
    /\ UNCHANGED <<data_source, TEMP_FILE_PATH, recording, machine_type, signals,
                   default_ahi_signal, default_pressure_signal, ahi_signal,
                   pressure_signal, ahi_overridden, pressure_overridden, df,
                   daily_data, weekly_recommended_table, messages, output,
                   error, opens>>

\* Lines 142-143.
Merge ==
    /\ pc = "merge"
    /\ df' = merge(df_ahi, df_pressure)
    /\ pc' = "aggregate"
    /\ UNCHANGED <<data_source, TEMP_FILE_PATH, recording, machine_type, signals,
                   default_ahi_signal, default_pressure_signal, ahi_signal,
                   pressure_signal, ahi_overridden, pressure_overridden, slot,
                   df_ahi, df_pressure, daily_data, weekly_recommended_table,
                   messages, output, error, open_handles, opens>>

\* Lines 144-145.  daily_data[pressure_signal] raises KeyError when the
\* merged table has no column of that name.
Aggregate ==
    /\ pc = "aggregate"
    /\ IF pressure_signal \in Range(df.cols)
       THEN /\ daily_data' = aggregate(df, pressure_signal)
            /\ pc' = "summary"
            /\ UNCHANGED error
       ELSE /\ Raise("KeyError")
            /\ UNCHANGED daily_data
    /\ UNCHANGED <<data_source, TEMP_FILE_PATH, recording, machine_type, signals,
                   default_ahi_signal, default_pressure_signal, ahi_signal,
                   pressure_signal, ahi_overridden, pressure_overridden, slot,
                   df_ahi, df_pressure, df, weekly_recommended_table, messages,
                   output, open_handles, opens>>

\* Lines 147-170: the two charts, the Weekly Summary table and the
\* download button.
Summarize ==
    /\ pc = "summary"
    /\ weekly_recommended_table' = weekly_table(daily_data)
    /\ output' = TRUE
    /\ pc' = "done"
    /\ UNCHANGED <<data_source, TEMP_FILE_PATH, recording, machine_type, signals,
                   default_ahi_signal, default_pressure_signal, ahi_signal,
                   pressure_signal, ahi_overridden, pressure_overridden, slot,
                   df_ahi, df_pressure, df, daily_data, messages, error,
                   open_handles, opens>>

Next ==
    \/ UploadFile
    \/ MemoryCard
    \/ NoFile
    \/ MetaOpen
    \/ MetaQuery
    \/ MetaFails
    \/ MetaClose
    \/ ResolveDefaults
    \/ SelectSignals
    \/ Warn
    \/ LoadOpen
    \/ LoadRead
    \/ LoadFails
    \/ LoadClose
    \/ Merge
    \/ Aggregate
    \/ Summarize

Spec == Init /\ [][Next]_vars

(***************************************************************************)
(* Positions of the render the properties speak about.                     *)
(***************************************************************************)
\* get_default_signals has returned (line 126 is passed).
Resolved == machine_type # None /\ pc \notin {"meta_read", "resolve"}

\* Both selectboxes have a value (line 128 is passed).
Selected == Resolved /\ pc # "select"

\* The merged table exists (line 143 is passed).
Merged == df.cols # <<>>

\* The Daily Aggregate exists (line 145 is passed).
Aggregated == daily_data # <<>>

\* The render ended with the charts, the table and the download button.
FullOutput == pc = "done" /\ output

Times(frame) == {frame.rows[i].Time : i \in DOMAIN frame.rows}

Text020 == <<"0", ".", "0", "%">>

(***************************************************************************)
(* C1.  Default-channel resolution: the resolved names are "AHI" and, for  *)
(* the device "ResMed AirCurve 10", "Pressure", for every other device and *)
(* for an absent device "MaskPress.95"; each slot holds its name when the  *)
(* name is one of the recording's channel labels (compared exactly) and    *)
(* None otherwise, and the resolution raises nothing.                      *)
(***************************************************************************)
C1_DefaultResolution ==
    Resolved =>
        LET labels == {recording.signals[k] : k \in DOMAIN recording.signals}
            pressureName == IF recording.device = "ResMed AirCurve 10"
                            THEN "Pressure" ELSE "MaskPress.95"
        IN  /\ default_ahi_signal = (IF "AHI" \in labels THEN "AHI" ELSE None)
            /\ default_pressure_signal =
                  (IF pressureName \in labels THEN pressureName ELSE None)
            /\ (pc = "select" => error = None)

\* C1 witness: an AirCurve 10 recording with channels "ahi" and "Pressure":
\* the pressure slot resolves to "Pressure", the AHI slot to None.
C1_Witness ==
    /\ pc = "select"
    /\ recording.device = "ResMed AirCurve 10"
    /\ signals = <<"ahi", "Pressure">>
    /\ default_ahi_signal = None
    /\ default_pressure_signal = "Pressure"

(***************************************************************************)
(* C2.  Unresolvable channel selection halts the pipeline: once the        *)
(* channels are selected, if the default of a slot is None and the user    *)
(* did not override that slot, the render goes to the warning and no       *)
(* channel is loaded, merged or aggregated.                                *)
(***************************************************************************)
C2_UnresolvedHalts ==
    (Selected /\ (\/ (default_ahi_signal = None /\ ~ahi_overridden)
                  \/ (default_pressure_signal = None /\ ~pressure_overridden)))
    => /\ pc \in {"warn", "done"}
       /\ (pc = "done" /\ error = None =>
              "Please select valid signals for AHI and MaskPress.95." \in messages)
       /\ opens <= 1
       /\ df_ahi = NoFrame /\ df_pressure = NoFrame
       /\ ~Merged /\ ~Aggregated

(***************************************************************************)
(* C3.  Weekly recommendation: in every Daily Aggregate, the Recommended   *)
(* Pressure of each day (days without samples included) is the mean of the *)
(* daily pressure means of the days of its Monday-to-Sunday week, rounded  *)
(* to one decimal; it is NaN exactly when no day of the week has a sample. *)
(* Hence all days of one week carry the same value.                        *)
(***************************************************************************)
\* Both days lie in the same week ending on Sunday (weekday 0 is Monday).
SameWeek(d, e) == d - (d % 7) = e - (e % 7)

RECURSIVE SetLcm(_)
SetLcm(S) == IF S = {} THEN 1 ELSE LET x == CHOOSE x \in S : TRUE IN LCM(x, SetLcm(S \ {x}))

RECURSIVE ScaledSum(_, _, _)
\* the sum over the rows j in J of (rows[j].y / rows[j].n) * D
ScaledSum(rows, J, D) ==
    IF J = {} THEN 0
    ELSE LET j == CHOOSE j \in J : TRUE
         IN  rows[j].y * (D \div rows[j].n) + ScaledSum(rows, J \ {j}, D)

\* v (in tenths) is the mean of the daily means y / n of the rows J, rounded
\* to one decimal: it differs from the mean by at most half a tenth.
IsRoundedWeekMean(v, rows, J) ==
    LET D == SetLcm({rows[j].n : j \in J})
        num == ScaledSum(rows, J, D)
        den == D * Cardinality(J)
    IN  2 * Abs(v * den - num) <= den

C3_WeeklyRecommendation ==
    Aggregated =>
        \A i \in DOMAIN daily_data :
            LET J == {j \in DOMAIN daily_data :
                        /\ SameWeek(daily_data[j].day, daily_data[i].day)
                        /\ daily_data[j].n > 0}
            IN  /\ daily_data[i].rec.nan = (J = {})
                /\ J # {} => IsRoundedWeekMean(daily_data[i].rec.v, daily_data, J)
                /\ \A j \in DOMAIN daily_data :
                      SameWeek(daily_data[j].day, daily_data[i].day)
                      => daily_data[j].rec = daily_data[i].rec

\* C3 witness: a day without samples carries the mean of two days of its
\* week whose daily means differ.
C3_Witness ==
    /\ Aggregated
    /\ \E i, j, k \in DOMAIN daily_data :
          /\ daily_data[i].n = 0
          /\ daily_data[j].n > 0 /\ daily_data[k].n > 0
          /\ SameWeek(daily_data[i].day, daily_data[j].day)
          /\ SameWeek(daily_data[i].day, daily_data[k].day)
          /\ daily_data[j].y * daily_data[k].n # daily_data[k].y * daily_data[j].n
          /\ ~daily_data[i].rec.nan

(***************************************************************************)
(* C4.  The daily pressure means 10.0, 10.0, 12.0, 12.0, 12.0, 14.0, 14.0  *)
(* on seven consecutive days.                                              *)
(***************************************************************************)
ExampleMeans == <<100, 100, 120, 120, 120, 140, 140>>

\* Rows i .. i+6 of the Daily Aggregate start on weekday wd and have the
\* example's daily pressure means.
ExampleRunAt(i, wd) ==
    /\ i + 6 <= Len(daily_data)
    /\ daily_data[i].day % 7 = wd
    /\ \A k \in 0..6 : /\ daily_data[i + k].n > 0
                       /\ daily_data[i + k].y = ExampleMeans[k + 1] * daily_data[i + k].n

\* C4 as stated: when the seven days run from Sunday to Saturday, each of
\* them carries the Recommended Pressure 12.0.
C4_SundayToSaturday ==
    Aggregated =>
        \A i \in DOMAIN daily_data :
            ExampleRunAt(i, 6) => \A k \in 0..6 : daily_data[i + k].rec = Num(120)

\* C4 amended: when the seven days run from Monday to Sunday, each of them
\* carries the Recommended Pressure 12.0.
C4_MondayToSunday ==
    Aggregated =>
        \A i \in DOMAIN daily_data :
            ExampleRunAt(i, 0) => \A k \in 0..6 : daily_data[i + k].rec = Num(120)

\* C4 witness: a Daily Aggregate holding the example from a Monday on.
C4_Witness == Aggregated /\ \E i \in DOMAIN daily_data : ExampleRunAt(i, 0)

(***************************************************************************)
(* C5.  In every Weekly Summary row, 'Week Start' is the Sunday that       *)
(* begins the row's week: no day with samples that is averaged into the    *)
(* row is earlier than the row's Week Start.                               *)
(***************************************************************************)
C5_WeekStartBeginsWeek ==
    FullOutput =>
        \A i \in DOMAIN weekly_recommended_table :
            \A j \in DOMAIN daily_data :
                (/\ daily_data[j].n > 0
                 /\ SameWeek(daily_data[j].day, daily_data[1].day + 7 * (i - 1)))
                => daily_data[j].day >= weekly_recommended_table[i].WeekStart

(***************************************************************************)
(* C6.  Weekly Summary percent change: the first row shows "0.0%"; every   *)
(* later row shows (curr - prev) / prev * 100 of the two rows' recommended *)
(* pressures rounded to one decimal with a trailing "%", so 10.0 then 12.0 *)
(* shows "20.0%" and 12.0 then 10.0 shows "-16.7%"; a later row whose      *)
(* quotient is not a number shows that ("nan%"), not a zero change.        *)
(***************************************************************************)
ExpectedChange(curr, prev) ==
    IF curr.nan \/ prev.nan \/ (prev.v = 0 /\ curr.v = 0)
    THEN <<"n", "a", "n", "%">>
    ELSE IF prev.v = 0
         THEN (IF curr.v < 0 THEN <<"-">> ELSE <<>>) \o <<"i", "n", "f", "%">>
    ELSE LET q == RoundHalfEven((curr.v - prev.v) * 1000 * (IF prev.v < 0 THEN -1 ELSE 1),
                                Abs(prev.v))
             neg == (curr.v < prev.v) # (prev.v < 0)
         IN  TenthsChars(neg, Abs(q)) \o <<"%">>

C6_PercentChange ==
    FullOutput =>
        \A i \in DOMAIN weekly_recommended_table :
            LET row == weekly_recommended_table[i]
                curr == ParseFloat(row.RecommendedPressure)
                prev == ParseFloat(weekly_recommended_table[i - 1].RecommendedPressure)
            IN  IF i = 1 THEN row.Change = Text020
                ELSE /\ row.Change = ExpectedChange(curr, prev)
                     /\ (prev = Num(100) /\ curr = Num(120)
                            => row.Change = <<"2", "0", ".", "0", "%">>)
                     /\ (prev = Num(120) /\ curr = Num(100)
                            => row.Change = <<"-", "1", "6", ".", "7", "%">>)

(***************************************************************************)
(* C7.  End to end, on a recording with the channels "AHI" and             *)
(* "MaskPress.95", both selected, holding 14 one-day records of hourly     *)
(* samples that start at 00:00, the pressure constant at 8.0.              *)
(***************************************************************************)
FourteenDaysHourly ==
    /\ FullOutput
    /\ recording.signals = <<"AHI", "MaskPress.95">>
    /\ ahi_signal = "AHI" /\ pressure_signal = "MaskPress.95"
    /\ recording.recHours = 24 /\ recording.smp = <<24, 24>> /\ recording.nrec = 14
    /\ recording.startHour = 0
    /\ recording.pat[2] = ConstantPressure

\* C7 as stated: whatever the weekday of the start, the Daily Aggregate has
\* 14 rows, the Weekly Summary 2 rows, and the second row's change is "0.0%".
C7_TwoWeeksAnyWeekday ==
    FourteenDaysHourly =>
        /\ Len(daily_data) = 14
        /\ Len(weekly_recommended_table) = 2
        /\ weekly_recommended_table[2].Change = Text020

\* C7 amended: the Daily Aggregate has 14 rows; the Weekly Summary has 2
\* rows when the recording starts on a Monday and 3 rows otherwise; every
\* row shows the pressure "8.0" and the change "0.0%".
C7_WeeksByStartDay ==
    FourteenDaysHourly =>
        /\ Len(daily_data) = 14
        /\ Len(weekly_recommended_table) = (IF recording.startDay = 0 THEN 2 ELSE 3)
        /\ \A i \in DOMAIN weekly_recommended_table :
              /\ weekly_recommended_table[i].RecommendedPressure = <<"8", ".", "0">>
              /\ weekly_recommended_table[i].Change = Text020

\* C7 witness: such a recording that starts on a Thursday.
C7_Witness ==
    /\ FourteenDaysHourly
    /\ recording.startDay = 3
    /\ Len(weekly_recommended_table) = 3

(***************************************************************************)
(* C8.  The merged table of two channels of one recording.                 *)
(***************************************************************************)
SelectedPeriod(name) == SamplePeriod(recording, IndexOf(recording.signals, name))

DifferentRates == SelectedPeriod(ahi_signal) # SelectedPeriod(pressure_signal)

C9_NoUncaughtError ==
    /\ (pc = "done" /\ error # "ReaderError")
          => (error = None /\ (output \/ messages # {}))
    /\ (TEMP_FILE_PATH = None /\ pc \notin {"start"})
          => (opens = 0 /\ df_ahi = NoFrame /\ df_pressure = NoFrame
              /\ ~Merged /\ ~Aggregated)

(***************************************************************************)
(* C10.  File-handle lifecycle: at most one reader is open at any time; a  *)
(* render that ends with the full output has opened the recording three    *)
(* times; when the render has ended, normally or by a failure inside a     *)
(* load, no reader is left open.                                           *)
(***************************************************************************)
C10_HandleLifecycle ==
    /\ open_handles \in {0, 1}
    /\ (FullOutput => opens = 3)
    /\ (pc = "done" => open_handles = 0)

====
